---- MODULE Spec2Model ----
(***************************************************************************)
(* A model of mgpi/mgpi.py: the kernel classes and their named parameter   *)
(* vectors, CombinedKernel's routing of "<name>_<index>" keys, the dense   *)
(* Interpolator (pairwise covariance, rvs) and its hyperparameter tuning   *)
(* (optimize_kernel, sample_kernel).                                       *)
(*                                                                         *)
(* Python strings are sequences of one-character strings, so that          *)
(* str.split, str.join, int() and '%s' formatting are computed, not        *)
(* assumed.  Floats are records: a finite value, +-infinity or NaN.        *)
(* Objects live in a heap (a sequence indexed by object id); a reference   *)
(* is an id.                                                               *)
(***************************************************************************)
EXTENDS Integers, Sequences, FiniteSets, TLC

VARIABLES kernels, call, gp, interp, opt, mc, imports

vars == <<kernels, call, gp, interp, opt, mc, imports>>

\* ------------------------------------------------------------------ bounds

\* keyword arguments in one update call
MaxKeys == 2

\* ------------------------------------------------------------------ floats

F(n) == [k |-> "fin", v |-> n]
PosInf == [k |-> "inf", v |-> 1]
NegInf == [k |-> "inf", v |-> -1]
NaN == [k |-> "nan", v |-> 0]

\* a * b in IEEE arithmetic: NaN absorbs, 0 * inf is NaN
FMul(a, b) ==
    IF a.k = "nan" \/ b.k = "nan" THEN NaN
    ELSE IF a.k = "inf" \/ b.k = "inf"
         THEN IF a.v = 0 \/ b.v = 0 THEN NaN
              ELSE IF (a.v > 0) = (b.v > 0) THEN PosInf ELSE NegInf
    ELSE F(a.v * b.v)

\* a + b in IEEE arithmetic: NaN absorbs, inf - inf is NaN
FAdd(a, b) ==
    IF a.k = "nan" \/ b.k = "nan" THEN NaN
    ELSE IF a.k = "inf" /\ b.k = "inf" THEN (IF a.v = b.v THEN a ELSE NaN)
    ELSE IF a.k = "inf" THEN a
    ELSE IF b.k = "inf" THEN b
    ELSE F(a.v + b.v)

\* ------------------------------------------------------------------ strings

Digits == <<"0", "1", "2", "3", "4", "5", "6", "7", "8", "9">>

IsDigit(c) == \E d \in 1..10 : Digits[d] = c

DigitVal(c) == (CHOOSE d \in 1..10 : Digits[d] = c) - 1

RECURSIVE NatToStr(_)
NatToStr(n) ==
    IF n < 10 THEN <<Digits[n + 1]>>
    ELSE NatToStr(n \div 10) \o <<Digits[(n % 10) + 1]>>

\* '%s' % index and '%d' % ind for an int
py_format_int(n) == IF n < 0 THEN <<"-">> \o NatToStr(0 - n) ELSE NatToStr(n)

\* str.split(sep): the parts between the separators, empty parts kept
RECURSIVE py_split(_, _)
py_split(s, sep) ==
    IF \A i \in 1..Len(s) : s[i] # sep THEN <<s>>
    ELSE LET p == CHOOSE i \in 1..Len(s) :
                      s[i] = sep /\ \A j \in 1..(i - 1) : s[j] # sep
         IN <<SubSeq(s, 1, p - 1)>> \o py_split(SubSeq(s, p + 1, Len(s)), sep)

\* sep.join(parts)
RECURSIVE py_join(_, _)
py_join(sep, parts) ==
    IF parts = <<>> THEN <<>>
    ELSE IF Len(parts) = 1 THEN parts[1]
    ELSE parts[1] \o <<sep>> \o py_join(sep, Tail(parts))

RECURSIVE py_strip(_)
py_strip(s) ==
    IF s = <<>> THEN s
    ELSE IF s[1] = " " THEN py_strip(Tail(s))
    ELSE IF s[Len(s)] = " " THEN py_strip(SubSeq(s, 1, Len(s) - 1))
    ELSE s

RECURSIVE DigitsVal(_)
DigitsVal(s) ==
    IF s = <<>> THEN 0
    ELSE 10 * DigitsVal(SubSeq(s, 1, Len(s) - 1)) + DigitVal(s[Len(s)])

\* int(s): surrounding blanks, an optional sign, then at least one digit;
\* anything else is a ValueError (ok = FALSE)
py_int(s) ==
    LET t == py_strip(s)
        signed == t # <<>> /\ t[1] \in {"+", "-"}
        body == IF signed THEN Tail(t) ELSE t
        good == body # <<>> /\ \A i \in 1..Len(body) : IsDigit(body[i])
    IN IF ~good THEN [ok |-> FALSE, v |-> 0]
       ELSE [ok |-> TRUE,
             v |-> IF signed /\ t[1] = "-" THEN 0 - DigitsVal(body)
                   ELSE DigitsVal(body)]

\* tuple.index(key): the first position holding key (1-based), 0 for ValueError
py_index(tup, key) ==
    IF \E i \in 1..Len(tup) : tup[i] = key
    THEN CHOOSE i \in 1..Len(tup) : tup[i] = key /\ \A j \in 1..(i - 1) : tup[j] # key
    ELSE 0

\* the parameter names of the source
n_sigma == <<"s", "i", "g", "m", "a">>
n_order == <<"o", "r", "d", "e", "r">>
n_length == <<"l", "e", "n", "g", "t", "h">>

\* ------------------------------------------------------------------ kernels

\* a kernel object: its class, _params (names), params (values), and for a
\* CombinedKernel the references to its children; num_dim 0 stands for None
KernelObj(cls, names, params, kids, nd) ==
    [cls |-> cls, names |-> names, params |-> params, kernels |-> kids, num_dim |-> nd]

\* NDKernel._parse_lengths: one 'length%d' name per length
parse_lengths(names, params, lengths) ==
    [names |-> names \o [ind \in 1..Len(lengths) |-> n_length \o py_format_int(ind - 1)],
     params |-> params \o lengths,
     num_dim |-> Len(lengths)]

WhiteNoiseKernel(sigma) ==
    KernelObj("WhiteNoiseKernel", <<n_sigma>>, <<sigma>>, <<>>, 0)

MaternKernel(order, sigma, lengths) ==
    LET p == parse_lengths(<<n_order, n_sigma>>, <<order, sigma>>, lengths)
    IN KernelObj("MaternKernel", p.names, p.params, <<>>, p.num_dim)

SquaredExponentialKernel(sigma, lengths) ==
    LET p == parse_lengths(<<n_sigma>>, <<sigma>>, lengths)
    IN KernelObj("SquaredExponentialKernel", p.names, p.params, <<>>, p.num_dim)

\* CombinedKernel._combinedkernel_name
combinedkernel_name(name, index) == name \o <<"_">> \o py_format_int(index)

\* _kernel_name keeping only the text before the first underscore as the name
kernel_name_first_part(name) ==
    LET parts == py_split(name, "_")
        ind == py_int(parts[Len(parts)])
    IN IF ~ind.ok THEN [ok |-> FALSE, name |-> <<>>, ind |-> 0]
       ELSE [ok |-> TRUE, name |-> parts[1], ind |-> ind.v]

\* CombinedKernel._kernel_name: ok = FALSE is the RuntimeError
kernel_name(name) ==
    LET parts == py_split(name, "_")
        ind == py_int(parts[Len(parts)])
    IN IF ~ind.ok THEN [ok |-> FALSE, name |-> <<>>, ind |-> 0]
       ELSE [ok |-> TRUE,
             name |-> py_join("_", SubSeq(parts, 1, Len(parts) - 1)),
             ind |-> ind.v]

RECURSIVE CombinedNames(_, _, _)
CombinedNames(heap, kids, ind) ==
    IF ind > Len(kids) THEN <<>>
    ELSE [i \in 1..Len(heap[kids[ind]].names) |->
              combinedkernel_name(heap[kids[ind]].names[i], ind - 1)]
         \o CombinedNames(heap, kids, ind + 1)

\* CombinedKernel.__init__ over the children kids (references into heap)
CombinedKernel(heap, kids) ==
    KernelObj("CombinedKernel", CombinedNames(heap, kids, 1), <<>>, kids,
              LET nds == {heap[kids[i]].num_dim : i \in 1..Len(kids)} \ {0}
              IN IF nds = {} THEN 0 ELSE CHOOSE d \in nds : TRUE)

\* the assertions of CombinedKernel.__init__
CombinedKernelOk(heap, kids) ==
    /\ Len(kids) >= 2
    /\ Cardinality({heap[kids[i]].num_dim : i \in 1..Len(kids)} \ {0}) <= 1

\* kernel.params: the array of a simple kernel, the concatenation of the
\* children's arrays for a CombinedKernel
RECURSIVE ConcatParams(_, _)
ConcatParams(heap, kids) ==
    IF kids = <<>> THEN <<>>
    ELSE heap[kids[1]].params \o ConcatParams(heap, Tail(kids))

Params(heap, id) ==
    IF heap[id].cls = "CombinedKernel" THEN ConcatParams(heap, heap[id].kernels)
    ELSE heap[id].params

\* kernel.params_dict: dict(zip(_params, params)) as a sequence of pairs
params_dict(heap, id) ==
    LET ns == heap[id].names
        ps == Params(heap, id)
        n == IF Len(ns) < Len(ps) THEN Len(ns) ELSE Len(ps)
    IN [i \in 1..n |-> <<ns[i], ps[i]>>]

\* dict[key] = val on a dict kept as a sequence of <<key, val>> in insertion order
DictSet(d, key, val) ==
    IF \E i \in 1..Len(d) : d[i][1] = key
    THEN [i \in 1..Len(d) |-> IF d[i][1] = key THEN <<key, val>> ELSE d[i]]
    ELSE Append(d, <<key, val>>)

\* Kernel.update that lets the ValueError of an unknown key end the call
RECURSIVE Kernel_update_fatal(_, _)
Kernel_update_fatal(k, params) ==
    IF params = <<>> THEN [k |-> k, warned |-> <<>>]
    ELSE LET key == params[1][1]
             hit == py_index(k.names, key)
         IN IF hit = 0 THEN [k |-> k, warned |-> <<key>>]
            ELSE Kernel_update_fatal([k EXCEPT !.params[hit] = params[1][2]], Tail(params))

\* Kernel.update on one kernel object: each key is looked up in _params; a
\* key that is not there is warned about and skipped
RECURSIVE Kernel_update(_, _)
Kernel_update(k, params) ==
    IF params = <<>> THEN [k |-> k, warned |-> <<>>]
    ELSE LET key == params[1][1]
             val == params[1][2]
             hit == py_index(k.names, key)
             k1 == IF hit > 0 THEN [k EXCEPT !.params[hit] = val] ELSE k
             rest == Kernel_update(k1, Tail(params))
         IN [k |-> rest.k,
             warned |-> (IF hit > 0 THEN <<>> ELSE <<key>>) \o rest.warned]

\* the first loop of CombinedKernel.update: ans[ind][name] = val, or the
\* RuntimeError of _kernel_name (ok = FALSE)
RECURSIVE RegroupParams(_, _)
RegroupParams(params, ans) ==
    IF params = <<>> THEN [ok |-> TRUE, ans |-> ans]
    ELSE LET kn == kernel_name(params[1][1])
             old == IF \E i \in 1..Len(ans) : ans[i][1] = kn.ind
                    THEN (CHOOSE g \in {ans[i] : i \in 1..Len(ans)} : g[1] = kn.ind)[2]
                    ELSE <<>>
         IN IF ~kn.ok THEN [ok |-> FALSE, ans |-> <<>>]
            ELSE RegroupParams(Tail(params),
                               DictSet(ans, kn.ind, DictSet(old, kn.name, params[1][2])))

\* self.kernels[ind] on a tuple of n entries: 1-based position, 0 for IndexError
TupleIndex(n, ind) ==
    IF ind >= 0 /\ ind < n THEN ind + 1
    ELSE IF ind < 0 /\ ind >= 0 - n THEN n + ind + 1
    ELSE 0

\* the second loop of CombinedKernel.update: each group goes to its child
RECURSIVE RouteGroups(_, _, _)
RouteGroups(heap, kids, ans) ==
    IF ans = <<>> THEN [heap |-> heap, exc |-> "", warned |-> <<>>, delivered |-> <<>>]
    ELSE LET pos == TupleIndex(Len(kids), ans[1][1])
         IN IF pos = 0
            THEN [heap |-> heap, exc |-> "IndexError", warned |-> <<>>, delivered |-> <<>>]
            ELSE LET child == kids[pos]
                     upd == Kernel_update(heap[child], ans[1][2])
                     rest == RouteGroups([heap EXCEPT ![child] = upd.k], kids, Tail(ans))
                 IN [heap |-> rest.heap,
                     exc |-> rest.exc,
                     warned |-> upd.warned \o rest.warned,
                     delivered |-> <<[child |-> child, params |-> ans[1][2]]>>
                                   \o rest.delivered]

\* CombinedKernel.update routing each key as soon as it is parsed
RECURSIVE CombinedKernel_update_eager(_, _, _)
CombinedKernel_update_eager(heap, id, params) ==
    IF params = <<>> THEN [heap |-> heap, exc |-> "", warned |-> <<>>, delivered |-> <<>>]
    ELSE LET kn == kernel_name(params[1][1])
             one == RouteGroups(heap, heap[id].kernels,
                                <<<<kn.ind, <<<<kn.name, params[1][2]>>>>>>>>)
             rest == CombinedKernel_update_eager(one.heap, id, Tail(params))
         IN IF ~kn.ok
            THEN [heap |-> heap, exc |-> "RuntimeError", warned |-> <<>>, delivered |-> <<>>]
            ELSE IF one.exc # "" THEN one
            ELSE [heap |-> rest.heap, exc |-> rest.exc,
                  warned |-> one.warned \o rest.warned,
                  delivered |-> one.delivered \o rest.delivered]

CombinedKernel_update(heap, id, params) ==
    LET groups == RegroupParams(params, <<>>)
    IN IF ~groups.ok
       THEN [heap |-> heap, exc |-> "RuntimeError", warned |-> <<>>, delivered |-> <<>>]
       ELSE RouteGroups(heap, heap[id].kernels, groups.ans)

\* kernel.update(**params) on the object id: dispatch on its class
update(heap, id, params) ==
    IF heap[id].cls = "CombinedKernel" THEN CombinedKernel_update(heap, id, params)
    ELSE LET upd == Kernel_update(heap[id], params)
         IN [heap |-> [heap EXCEPT ![id] = upd.k], exc |-> "", warned |-> upd.warned,
             delivered |-> <<[child |-> id, params |-> params]>>]

\* ------------------------------------------------------------------ update calls

\* the values a caller passes (the kernels start from other values)
NewVals == {F(8), F(9)}

\* the heaps the update calls start from: simple kernels first, then the
\* CombinedKernel built over them
HeapWS ==
    LET leaves == <<WhiteNoiseKernel(F(1)), SquaredExponentialKernel(F(2), <<F(3)>>)>>
    IN Append(leaves, CombinedKernel(leaves, <<1, 2>>))

HeapMWS ==
    LET leaves == <<MaternKernel(F(1), F(2), <<F(3)>>), WhiteNoiseKernel(F(4)),
                    SquaredExponentialKernel(F(5), <<F(6), F(7)>>)>>
    IN Append(leaves, CombinedKernel(leaves, <<1, 2, 3>>))

StartHeaps == {HeapWS, HeapMWS}

n_a_b == <<"a", "_", "b">>
n_lengths == <<"l", "e", "n", "g", "t", "h", "s">>

\* base names a caller may use: the names of the source and two strangers,
\* one of them with an underscore in it
BaseNames == {n_sigma, n_order, n_length \o <<"0">>, n_length \o <<"1">>, n_a_b, n_lengths}

\* keys with no parseable trailing integer
UnroutableKeys == {n_sigma, n_length \o <<"0">>, n_sigma \o <<"_">>, n_a_b}

\* keys whose trailing integer is no index the format produces for a child
OddIndexKeys ==
    {n_sigma \o <<"_", "7">>, n_sigma \o <<"_", "-", "1">>, n_sigma \o <<"_", "0", "1">>}

\* the keys a caller of CombinedKernel.update may pass
CombinedKeys(heap, id) ==
    {heap[id].names[i] : i \in 1..Len(heap[id].names)}
    \cup {combinedkernel_name(n_a_b, 0), combinedkernel_name(n_order, 1),
          combinedkernel_name(n_lengths, 1)}
    \cup UnroutableKeys \cup OddIndexKeys

\* the keys a caller of Kernel.update on a simple kernel may pass
SimpleKeys == BaseNames \cup {combinedkernel_name(n_sigma, 0)}

\* keyword arguments: up to MaxKeys pairs with distinct keys, in call order
RECURSIVE KwargsOver(_, _)
KwargsOver(keys, n) ==
    IF n = 0 THEN {<<>>}
    ELSE LET shorter == KwargsOver(keys, n - 1)
         IN shorter \cup
            {Append(kw, <<key, val>>) :
                kw \in {s \in shorter : Len(s) = n - 1},
                key \in keys, val \in NewVals}

DistinctKeys(kw) == \A i, j \in 1..Len(kw) : i # j => kw[i][1] # kw[j][1]

Kwargs(keys) == {kw \in KwargsOver(keys, MaxKeys) : DistinctKeys(kw)}

IdleCall == [pc |-> "idle", target |-> 0, params |-> <<>>, pre |-> <<>>, exc |-> "",
             warned |-> <<>>, delivered |-> <<>>]

NoGp == [pc |-> "idle"]
NoOpt == [pc |-> "idle"]
NoMc == [pc |-> "idle"]

\* what importing the module leaves in _gamma, _bessel_k, _minimize and
\* _emcee: TRUE for the imported object, FALSE for None. The two names of
\* scipy.special come from one try block, so they are set or None together
ImportOutcomes ==
    {[gamma |-> s, bessel_k |-> s, minimize |-> m, emcee |-> e] :
        s \in BOOLEAN, m \in BOOLEAN, e \in BOOLEAN}

\* every optional import succeeded
AllImported == [gamma |-> TRUE, bessel_k |-> TRUE, minimize |-> TRUE, emcee |-> TRUE]

InitKernel ==
    /\ kernels \in StartHeaps
    /\ call = IdleCall
    /\ gp = NoGp
    /\ interp = <<>>
    /\ opt = NoOpt
    /\ mc = NoMc
    /\ imports = AllImported

\* kernel.update(**params) called by a user on the object id
DoUpdate(id, params) ==
    LET r == update(kernels, id, params)
    IN /\ kernels' = r.heap
       /\ call' = [pc |-> "done", target |-> id, params |-> params, pre |-> kernels,
                   exc |-> r.exc, warned |-> r.warned, delivered |-> r.delivered]
       /\ UNCHANGED <<gp, interp, opt, mc, imports>>

CombinedUpdate ==
    /\ call.pc = "idle"
    /\ \E id \in 1..Len(kernels) :
        /\ kernels[id].cls = "CombinedKernel"
        /\ \E params \in Kwargs(CombinedKeys(kernels, id)) : DoUpdate(id, params)

SimpleUpdate ==
    /\ call.pc = "idle"
    /\ \E id \in 1..Len(kernels) :
        /\ kernels[id].cls # "CombinedKernel"
        /\ \E params \in Kwargs(SimpleKeys) : DoUpdate(id, params)

NextKernel == CombinedUpdate \/ SimpleUpdate

SpecKernel == InitKernel /\ [][NextKernel]_vars

\* ------------------------------------------------------------------ claims on update

Range(f) == {f[i] : i \in DOMAIN f}

CallOnCombined == call.pc = "done" /\ call.pre[call.target].cls = "CombinedKernel"

CallOnSimple == call.pc = "done" /\ call.pre[call.target].cls # "CombinedKernel"

\* key is "<name>_<i>" for a base name and the index i of a child of the target
WellFormedKey(key) ==
    \E name \in BaseNames, i \in 0..(Len(call.pre[call.target].kernels) - 1) :
        key = combinedkernel_name(name, i)

OriginOf(key) ==
    CHOOSE o \in BaseNames \X (0..(Len(call.pre[call.target].kernels) - 1)) :
        key = combinedkernel_name(o[1], o[2])

AllWellFormed == \A j \in 1..Len(call.params) : WellFormedKey(call.params[j][1])

\* the <<child, name, value>> triples the children were handed
DeliveredTriples ==
    UNION {{<<g.child, pr[1], pr[2]>> : pr \in Range(g.params)} : g \in Range(call.delivered)}

\* C1: a CombinedKernel.update call whose keys are all "<name>_<i>" with i a
\* child index parses every key back to exactly (name, i), also for a name
\* with underscores in it, hands (name, value) to child i and to no other
\* child, and leaves the flattened params changed exactly at the positions
\* the keys name, which hold the new values.
C1_UpdateRoutesByTrailingIndex ==
    (CallOnCombined /\ AllWellFormed) =>
        LET kids == call.pre[call.target].kernels
            names == call.pre[call.target].names
            before == Params(call.pre, call.target)
            after == Params(kernels, call.target)
        IN /\ call.exc = ""
           /\ \A j \in 1..Len(call.params) :
                LET o == OriginOf(call.params[j][1])
                IN kernel_name(call.params[j][1]) = [ok |-> TRUE, name |-> o[1], ind |-> o[2]]
           /\ DeliveredTriples =
                {<<kids[OriginOf(call.params[j][1])[2] + 1],
                   OriginOf(call.params[j][1])[1],
                   call.params[j][2]>> : j \in 1..Len(call.params)}
           /\ Len(after) = Len(before)
           /\ \A q \in 1..Len(before) :
                IF \E j \in 1..Len(call.params) : call.params[j][1] = names[q]
                THEN \E j \in 1..Len(call.params) :
                        call.params[j][1] = names[q] /\ after[q] = call.params[j][2]
                ELSE after[q] = before[q]
           /\ \A c \in 1..Len(kernels) : kernels[c].names = call.pre[c].names

\* C1's case: two keys for two different children, one with a base name that
\* has an underscore in it, the other changing a parameter
C1_Witness ==
    /\ CallOnCombined /\ AllWellFormed
    /\ Len(call.params) = 2
    /\ call.params[1][1] = combinedkernel_name(n_a_b, 0)
    /\ call.params[2][1] = combinedkernel_name(n_sigma, 1)
    /\ Params(kernels, call.target) # Params(call.pre, call.target)

\* C2: a CombinedKernel.update call with a key that has no parseable trailing
\* integer ends in the RuntimeError and has touched no child: every kernel's
\* params are what they were, whatever else the call names.
C2_UnroutableKeyFailsBeforeAnyChild ==
    (CallOnCombined /\ \E j \in 1..Len(call.params) : call.params[j][1] \in UnroutableKeys)
        => /\ call.exc = "RuntimeError"
           /\ kernels = call.pre
           /\ call.delivered = <<>>

\* C2's case: a routable key first, then a key with no trailing integer
C2_Witness ==
    /\ CallOnCombined
    /\ Len(call.params) = 2
    /\ call.params[1][1] = call.pre[call.target].names[1]
    /\ call.params[2][1] \in UnroutableKeys
    /\ call.exc = "RuntimeError"

\* the pairs child c was handed, in the order it got them
RECURSIVE GivenTo(_, _)
GivenTo(c, delivered) ==
    IF delivered = <<>> THEN <<>>
    ELSE (IF delivered[1].child = c THEN delivered[1].params ELSE <<>>)
         \o GivenTo(c, Tail(delivered))

\* the value the last pair for name carries, or old when no pair names it
RECURSIVE LastVal(_, _, _)
LastVal(pairs, name, old) ==
    IF pairs = <<>> THEN old
    ELSE LastVal(Tail(pairs), name, IF pairs[1][1] = name THEN pairs[1][2] ELSE old)

\* C3: a name that is not among a kernel's parameter names does not end
\* Kernel.update: the call returns, the name is warned about and changes
\* nothing, every name of the same call that the kernel owns is applied, and
\* the parameter vector keeps its names, order and length; the same for the
\* names CombinedKernel.update hands to a child that does not own them.
C3_UnknownNameIsIgnored ==
    (call.pc = "done" /\ call.exc # "RuntimeError") =>
        /\ (CallOnSimple \/ AllWellFormed) => call.exc = ""
        /\ \A c \in 1..Len(kernels) :
            /\ kernels[c].names = call.pre[c].names
            /\ Len(kernels[c].params) = Len(call.pre[c].params)
            /\ \A q \in 1..Len(kernels[c].params) :
                kernels[c].params[q] =
                    LastVal(GivenTo(c, call.delivered), call.pre[c].names[q],
                            call.pre[c].params[q])
        /\ \A t \in DeliveredTriples :
            t[2] \notin Range(call.pre[t[1]].names) => t[2] \in Range(call.warned)

\* C3's case: Kernel.update with an unknown name first and the kernel's own
\* sigma after it, which is applied
C3_Witness ==
    /\ CallOnSimple
    /\ Len(call.params) = 2
    /\ call.params[1][1] = n_lengths
    /\ call.params[2][1] = n_sigma
    /\ call.warned = <<n_lengths>>
    /\ call.exc = ""
    /\ kernels # call.pre

\* C3's case through a CombinedKernel: "order_1" reaches a child without order
C3_RoutedWitness ==
    /\ CallOnCombined
    /\ \E j \in 1..Len(call.params) : call.params[j][1] = combinedkernel_name(n_order, 1)
    /\ call.warned # <<>>
    /\ call.exc = ""
    /\ kernels # call.pre

\* ------------------------------------------------------------------ covariance

\* points per point set
MaxPts == 2

\* A covariance value is exact + the sum of terms: exact is a float, terms
\* are the values the model keeps symbolic (exp and Bessel values at a
\* non-zero distance).
Exact(x) == [exact |-> x, terms |-> <<>>]

Symbolic(f, coef, order, q) ==
    [exact |-> F(0), terms |-> <<[f |-> f, coef |-> coef, order |-> order, q |-> q]>>]

\* ans += cov, elementwise on two values
VAdd(a, b) == [exact |-> FAdd(a.exact, b.exact), terms |-> a.terms \o b.terms]

\* (x1 - x2)**2 / lengths**2 of one row, coordinate by coordinate, each kept
\* as <<numerator, denominator>>
ScaledSquares(r1, r2, lengths) ==
    [d \in 1..Len(r1) |-> <<(r1[d] - r2[d]) * (r1[d] - r2[d]), lengths[d].v * lengths[d].v>>]

\* np.sum(..., axis=1) of a row is 0 exactly when every numerator is
SumIsZero(q) == \A d \in 1..Len(q) : q[d][1] = 0

\* WhiteNoiseKernel.cov with np.any in the place of np.all
WhiteNoiseKernel_cov_any(k, X1, X2) ==
    [r \in 1..Len(X1) |->
        Exact(FMul(FMul(k.params[1], k.params[1]),
                   F(IF \E d \in 1..Len(X1[r]) : X1[r][d] = X2[r][d] THEN 1 ELSE 0)))]

\* WhiteNoiseKernel.cov: sigma**2 * np.all(x1 == x2, axis=1)
WhiteNoiseKernel_cov(k, X1, X2) ==
    [r \in 1..Len(X1) |->
        Exact(FMul(FMul(k.params[1], k.params[1]),
                   F(IF \A d \in 1..Len(X1[r]) : X1[r][d] = X2[r][d] THEN 1 ELSE 0)))]

\* SquaredExponentialKernel.cov: sigma**2 * exp(-sum); exp(-0.0) is 1.0
SquaredExponentialKernel_cov(k, X1, X2) ==
    [r \in 1..Len(X1) |->
        LET sigma2 == FMul(k.params[1], k.params[1])
            q == ScaledSquares(X1[r], X2[r], SubSeq(k.params, 2, Len(k.params)))
        IN IF SumIsZero(q) THEN Exact(FMul(sigma2, F(1)))
           ELSE Symbolic("exp", sigma2, F(0), q)]

\* MaternKernel.cov: s**2 * (2**(1-o)/gamma(o)) * diff**o * kv(o, diff).  At
\* diff = 0 and o > 0 the factors are 0.0**o = 0.0 and kv(o, 0.0) = inf, and
\* the finite positive factor 2**(1-o)/gamma(o) does not change 0.0 * inf.
MaternKernel_cov(k, X1, X2) ==
    [r \in 1..Len(X1) |->
        LET o == k.params[1]
            s2 == FMul(k.params[2], k.params[2])
            q == ScaledSquares(X1[r], X2[r], SubSeq(k.params, 3, Len(k.params)))
        IN IF SumIsZero(q) THEN Exact(FMul(FMul(s2, F(0)), PosInf))
           ELSE Symbolic("matern", s2, o, q)]

SimpleKernel_cov(k, X1, X2) ==
    IF k.cls = "WhiteNoiseKernel" THEN WhiteNoiseKernel_cov(k, X1, X2)
    ELSE IF k.cls = "MaternKernel" THEN MaternKernel_cov(k, X1, X2)
    ELSE SquaredExponentialKernel_cov(k, X1, X2)

\* CombinedKernel.cov: ans = 0.0, then ans += kernel.cov(...) child by child
RECURSIVE CombinedKernel_cov(_, _, _, _, _)
CombinedKernel_cov(heap, kids, X1, X2, ans) ==
    IF kids = <<>> THEN ans
    ELSE LET c == SimpleKernel_cov(heap[kids[1]], X1, X2)
         IN CombinedKernel_cov(heap, Tail(kids), X1, X2,
                               [r \in 1..Len(X1) |-> VAdd(ans[r], c[r])])

\* kernel.cov(X1, X2) on the object id
kernel_cov(heap, id, X1, X2) ==
    IF heap[id].cls = "CombinedKernel"
    THEN CombinedKernel_cov(heap, heap[id].kernels, X1, X2,
                            [r \in 1..Len(X1) |-> Exact(F(0))])
    ELSE SimpleKernel_cov(heap[id], X1, X2)

\* the loop of _x2cov: X1[ind*n2:(ind+1)*n2,:] = x1[ind,:] for ind in range(n1)
RECURSIVE FillX1(_, _, _, _)
FillX1(X1, x1, n2, ind) ==
    IF ind >= Len(x1) THEN X1
    ELSE FillX1([r \in 1..Len(X1) |->
                    IF r - 1 >= ind * n2 /\ r - 1 < (ind + 1) * n2 THEN x1[ind + 1]
                    ELSE X1[r]],
                x1, n2, ind + 1)

\* X1 = np.empty((n1*n2, ndim)), then the loop
BuildX1(x1, n2) == FillX1([r \in 1..(Len(x1) * n2) |-> <<>>], x1, n2, 0)

\* array.ravel(): the rows one after the other
RECURSIVE Ravel(_)
Ravel(m) == IF m = <<>> THEN <<>> ELSE m[1] \o Ravel(Tail(m))

\* np.outer(a, b) of two flat arrays
Outer(a, b) == [i \in 1..Len(a) |-> [j \in 1..Len(b) |-> a[i] * b[j]]]

\* array.reshape((rows, cols)) in row-major order
Reshape(m, rows, cols) ==
    LET flat == Ravel(m)
    IN [r \in 1..rows |-> [c \in 1..cols |-> flat[(r - 1) * cols + c]]]

\* X2 as np.repeat(x2, n1, axis=0) would give it
BuildX2_repeat(n1, x2, nsmp, ndim) ==
    [r \in 1..nsmp |-> x2[((r - 1) \div n1) + 1]]

\* X2 = np.outer(np.ones(n1), x2).reshape((nsmp, ndim))
BuildX2(n1, x2, nsmp, ndim) ==
    Reshape(Outer([i \in 1..n1 |-> 1], Ravel(x2)), nsmp, ndim)

\* Interpolator._x2cov: the arrays handed to kernel.cov (one entry of covlog
\* per invocation) and the reshaped matrix, or the AssertionError
x2cov(heap, x1, x2, kernel) ==
    LET n1 == Len(x1)
        n2 == Len(x2)
        nsmp == n1 * n2
        ndim == Len(x1[1])
    IN IF Len(x2[1]) # ndim
       THEN [exc |-> "AssertionError", covlog |-> <<>>, cov |-> <<>>]
       ELSE LET X1 == BuildX1(x1, n2)
                X2 == BuildX2(n1, x2, nsmp, ndim)
                c == kernel_cov(heap, kernel, X1, X2)
            IN [exc |-> "",
                covlog |-> <<[X1 |-> X1, X2 |-> X2]>>,
                cov |-> [i \in 1..n1 |-> [j \in 1..n2 |-> c[(i - 1) * n2 + j]]]]

\* coordinates and dimensions of the point sets
Coords == {0, 1}
Dims == {1, 2}

PointSetsOf(d) == UNION {[1..n -> [1..d -> Coords]] : n \in 1..MaxPts}

PointSets == UNION {PointSetsOf(d) : d \in Dims}

\* the kernels of dimension d: one of each class and one CombinedKernel
HeapOfDim(d) ==
    LET leaves == <<WhiteNoiseKernel(F(2)),
                    SquaredExponentialKernel(F(3), [i \in 1..d |-> F(i)]),
                    MaternKernel(F(1), F(1), [i \in 1..d |-> F(i)])>>
    IN Append(leaves, CombinedKernel(leaves, <<1, 2>>))

\* the dimension the kernels of heap were built for
HeapDim(heap) == heap[Len(heap)].num_dim

InitCov ==
    /\ kernels \in {HeapOfDim(d) : d \in Dims}
    /\ call = IdleCall
    /\ gp = NoGp
    /\ interp = <<>>
    /\ opt = NoOpt
    /\ mc = NoMc
    /\ imports = AllImported

\* Interpolator._x2cov(x1, x2, kernel) on data of the kernel's dimension
X2Cov ==
    /\ gp.pc = "idle"
    /\ \E kernel \in 1..Len(kernels), x1 \in PointSetsOf(HeapDim(kernels)), x2 \in PointSets :
        LET r == x2cov(kernels, x1, x2, kernel)
        IN gp' = [pc |-> "done", kernel |-> kernel, x1 |-> x1, x2 |-> x2,
                  exc |-> r.exc, covlog |-> r.covlog, cov |-> r.cov]
    /\ UNCHANGED <<kernels, call, interp, opt, mc, imports>>

NextCov == X2Cov

SpecCov == InitCov /\ [][NextCov]_vars

\* ------------------------------------------------------------------ claims on covariance

CovDone == gp.pc = "done" /\ gp.exc = ""

\* the kernel's sigma squared
Sigma2(k) == LET sigma == k.params[py_index(k.names, n_sigma)] IN FMul(sigma, sigma)

\* C4: for non-empty X (n1 points) and Y (n2 points) of one dimension, _x2cov
\* invokes kernel.cov once, on two arrays of n1*n2 rows whose row i*n2+j is
\* X[i] and Y[j], and returns the n1 x n2 matrix whose [i,j] entry is the
\* kernel's covariance of X[i] and Y[j]; X and Y of different dimension are
\* rejected.
C4_PairwiseCovariance ==
    gp.pc = "done" =>
        LET n1 == Len(gp.x1)
            n2 == Len(gp.x2)
        IN IF Len(gp.x1[1]) # Len(gp.x2[1])
           THEN gp.exc = "AssertionError" /\ gp.covlog = <<>>
           ELSE /\ gp.exc = ""
                /\ Len(gp.covlog) = 1
                /\ Len(gp.covlog[1].X1) = n1 * n2
                /\ Len(gp.covlog[1].X2) = n1 * n2
                /\ \A i \in 0..(n1 - 1), j \in 0..(n2 - 1) :
                    /\ gp.covlog[1].X1[i * n2 + j + 1] = gp.x1[i + 1]
                    /\ gp.covlog[1].X2[i * n2 + j + 1] = gp.x2[j + 1]
                /\ Len(gp.cov) = n1
                /\ \A i \in 1..n1 :
                    /\ Len(gp.cov[i]) = n2
                    /\ \A j \in 1..n2 :
                        gp.cov[i][j] = kernel_cov(kernels, gp.kernel, <<gp.x1[i]>>, <<gp.x2[j]>>)[1]

\* C4's case: two by two distinct points under the CombinedKernel
C4_Witness ==
    /\ CovDone
    /\ kernels[gp.kernel].cls = "CombinedKernel"
    /\ Len(gp.x1) = 2 /\ Len(gp.x2) = 2
    /\ gp.x1[1] # gp.x1[2] /\ gp.x2[1] # gp.x2[2]
    /\ gp.x1 # gp.x2

\* C5, as stated: under a WhiteNoiseKernel every off-diagonal entry of
\* cov(X, X) is 0, for every point collection X.
C5_Original_OffDiagonalIsZero ==
    (CovDone /\ kernels[gp.kernel].cls = "WhiteNoiseKernel" /\ gp.x1 = gp.x2) =>
        \A i, j \in 1..Len(gp.x1) : i # j => gp.cov[i][j] = Exact(F(0))

\* C5, amended: under a WhiteNoiseKernel the [i,j] entry of cov(X, Y) is
\* sigma squared when X[i] and Y[j] agree in every coordinate and 0
\* otherwise; so in cov(X, X) the [i,j] entry with i # j is 0 whenever X[i]
\* and X[j] are different points.
C5_WhiteNoiseIsExactMatchIndicator ==
    (CovDone /\ kernels[gp.kernel].cls = "WhiteNoiseKernel") =>
        /\ \A i \in 1..Len(gp.x1), j \in 1..Len(gp.x2) :
            gp.cov[i][j] = Exact(IF gp.x1[i] = gp.x2[j] THEN Sigma2(kernels[gp.kernel])
                                 ELSE F(0))
        /\ gp.x1 = gp.x2 =>
            \A i, j \in 1..Len(gp.x1) :
                (i # j /\ gp.x1[i] # gp.x1[j]) => gp.cov[i][j] = Exact(F(0))

\* C5's case: cov(X, X) of two different points that share a coordinate
C5_Witness ==
    /\ CovDone
    /\ kernels[gp.kernel].cls = "WhiteNoiseKernel"
    /\ gp.x1 = gp.x2
    /\ Len(gp.x1) = 2
    /\ Len(gp.x1[1]) = 2
    /\ gp.x1[1] # gp.x1[2]
    /\ gp.x1[1][1] = gp.x1[2][1]
    /\ gp.cov[1][1] = Exact(F(4))
    /\ gp.cov[1][2] = Exact(F(0))

\* C6: for a WhiteNoiseKernel, MaternKernel or SquaredExponentialKernel and
\* every point set X, each diagonal entry of cov(X, X) is the kernel's sigma
\* squared.
C6_DiagonalIsZeroLagVariance ==
    (CovDone /\ kernels[gp.kernel].cls # "CombinedKernel" /\ gp.x1 = gp.x2) =>
        \A i \in 1..Len(gp.x1) : gp.cov[i][i] = Exact(Sigma2(kernels[gp.kernel]))

\* ------------------------------------------------------------------ optimize_kernel

\* calls of the objective in one run of the minimizer
MaxEvals == 2

\* an Interpolator that copies the kernel it is given
Interpolator_init_copy(heap, kernel) ==
    [heap |-> Append(heap, heap[kernel]), kernel |-> Len(heap) + 1, given |-> kernel]

\* Interpolator.__init__: self.kernel = kernel, the object itself
Interpolator_init(heap, kernel) ==
    [heap |-> heap, kernel |-> kernel, given |-> kernel]

\* x <= 0 and x != x on floats
FLeZero(x) == (x.k = "fin" /\ x.v <= 0) \/ (x.k = "inf" /\ x.v < 0)
FNeSelf(x) == x.k = "nan"

\* dict(zip(self.kernel._params, params))
ZipNames(heap, id, params) ==
    LET ns == heap[id].names
        n == IF Len(ns) < Len(params) THEN Len(ns) ELSE Len(params)
    IN [i \in 1..n |-> <<ns[i], params[i]>>]

\* the objective of optimize_kernel on the candidate params; llraises says
\* whether loglikelihood fails on these parameters (its assert or the
\* LinAlgError of the inverse).  ret is "inf" for np.infty and "value" for
\* -(loglikelihood + logprior); llcalls counts the calls of loglikelihood.
target(heap, kernel, params, llraises) ==
    IF (\E i \in 1..Len(params) : FLeZero(params[i]))
       \/ (\E i \in 1..Len(params) : FNeSelf(params[i]))
    THEN [heap |-> heap, ret |-> "inf", llcalls |-> 0, exc |-> ""]
    ELSE LET u == update(heap, kernel, ZipNames(heap, kernel, params))
         IN [heap |-> u.heap, ret |-> IF llraises THEN "" ELSE "value", llcalls |-> 1,
             exc |-> IF llraises THEN "AssertionError" ELSE ""]

\* the end of optimize_kernel: the kernel is updated to result.x and its
\* params_dict is returned
optimize_kernel_finish(heap, kernel, resultx) ==
    LET u == update(heap, kernel, ZipNames(heap, kernel, resultx))
    IN [heap |-> u.heap, ret |-> params_dict(u.heap, kernel)]

\* the kernels tuning starts from, all parameters positive
TuneHeap ==
    LET leaves == <<WhiteNoiseKernel(F(1)), SquaredExponentialKernel(F(2), <<F(3)>>)>>
    IN Append(leaves, CombinedKernel(leaves, <<1, 2>>))

\* the kernels the Interpolators of a behaviour are built on, in order
HolderConfigs == {<<2, 2, 3>>, <<1, 3>>, <<3, 3>>}

\* Interpolator(kernel) for each kernel of given, one after the other
RECURSIVE BuildInterpolators(_, _, _)
BuildInterpolators(heap, given, built) ==
    IF given = <<>> THEN [heap |-> heap, interp |-> built]
    ELSE LET one == Interpolator_init(heap, given[1])
         IN BuildInterpolators(one.heap, Tail(given),
                               Append(built, [kernel |-> one.kernel, given |-> one.given]))

\* what a component of a candidate can be besides the plain value 5
BadVals == {NegInf, F(-1), F(0), PosInf, NaN}

\* the candidates the minimizer may try on n parameters: two plain positive
\* vectors, and the vectors with one component that is not a positive finite
\* number
Candidates(n) ==
    {[i \in 1..n |-> F(5)], [i \in 1..n |-> F(5 + i)]}
    \cup {[i \in 1..n |-> IF i = p THEN b ELSE F(5)] : p \in 1..n, b \in BadVals}

InitTune ==
    /\ \E given \in HolderConfigs :
        LET b == BuildInterpolators(TuneHeap, given, <<>>)
        IN kernels = b.heap /\ interp = b.interp
    /\ call = IdleCall
    /\ gp = NoGp
    /\ opt = NoOpt
    /\ mc = NoMc
    /\ imports = AllImported

\* interp[who].optimize_kernel(...) is called: without scipy.optimize it raises
\* ImportError before anything else; else the minimizer starts from
\* the kernel's current params
OptStart ==
    /\ opt.pc = "idle"
    /\ \E who \in 1..Len(interp) :
        opt' = IF ~imports.minimize
               THEN [pc |-> "raised", who |-> who, x0 |-> Params(kernels, interp[who].kernel),
                     evals |-> <<>>, resultx |-> <<>>, ret |-> <<>>, exc |-> "ImportError"]
               ELSE [pc |-> "minimize", who |-> who, x0 |-> Params(kernels, interp[who].kernel),
                     evals |-> <<>>, resultx |-> <<>>, ret |-> <<>>, exc |-> ""]
    /\ UNCHANGED <<kernels, call, gp, interp, mc, imports>>

\* the minimizer calls the objective on a candidate
OptTarget ==
    /\ opt.pc = "minimize"
    /\ Len(opt.evals) < MaxEvals
    /\ \E params \in Candidates(Len(opt.x0)), llraises \in BOOLEAN :
        LET t == target(kernels, interp[opt.who].kernel, params, llraises)
        IN /\ kernels' = t.heap
           /\ opt' = [opt EXCEPT
                        !.evals = Append(@, [params |-> params, ret |-> t.ret,
                                             llcalls |-> t.llcalls]),
                        !.exc = t.exc,
                        !.pc = IF t.exc # "" THEN "raised" ELSE @]
    /\ UNCHANGED <<call, gp, interp, mc, imports>>

\* the points the minimizer can report: where it started, or a candidate the
\* objective gave a value for
Reportable ==
    {opt.x0} \cup {opt.evals[i].params : i \in {j \in 1..Len(opt.evals) : opt.evals[j].ret = "value"}}

\* the minimizer returns result.x and optimize_kernel finishes
OptFinish ==
    /\ opt.pc = "minimize"
    /\ \E resultx \in Reportable :
        LET f == optimize_kernel_finish(kernels, interp[opt.who].kernel, resultx)
        IN /\ kernels' = f.heap
           /\ opt' = [opt EXCEPT !.pc = "returned", !.resultx = resultx, !.ret = f.ret]
    /\ UNCHANGED <<call, gp, interp, mc, imports>>

NextTune == OptStart \/ OptTarget \/ OptFinish

SpecTune == InitTune /\ [][NextTune]_vars

\* ------------------------------------------------------------------ claims on optimize_kernel

NonPositive(x) == (x.k = "fin" /\ x.v <= 0) \/ x = NegInf

NonFinite(x) == x.k \in {"inf", "nan"}

\* C7: the objective of optimize_kernel rejects every candidate that has a
\* non-positive component or a non-finite one (NaN, +infinity, -infinity):
\* it returns np.infty for it and does not evaluate the marginal likelihood.
C7_BadCandidatesAreRejected ==
    opt.pc # "idle" =>
        \A e \in 1..Len(opt.evals) :
            (\E i \in 1..Len(opt.evals[e].params) :
                NonPositive(opt.evals[e].params[i]) \/ NonFinite(opt.evals[e].params[i]))
            => (opt.evals[e].ret = "inf" /\ opt.evals[e].llcalls = 0)

\* where the params of child number pos start in the params of a CombinedKernel
RECURSIVE Offset(_, _, _)
Offset(heap, kids, pos) ==
    IF pos <= 1 THEN 0
    ELSE Len(heap[kids[pos - 1]].params) + Offset(heap, kids, pos - 1)

\* C9: when optimize_kernel returns, the params of the kernel the
\* Interpolator was given are the optimum the minimizer reported, the
\* returned mapping is the kernel's params_dict, and every holder of that
\* kernel object sees the optimum: the Interpolator itself, every other
\* Interpolator built on it, every CombinedKernel that contains it, and the
\* children of the kernel when it is a CombinedKernel itself.
C9_OptimumIsSharedByReference ==
    opt.pc = "returned" =>
        LET g == interp[opt.who].given
        IN /\ Params(kernels, g) = opt.resultx
           /\ opt.ret = [i \in 1..Len(opt.resultx) |-> <<kernels[g].names[i], opt.resultx[i]>>]
           /\ opt.ret = params_dict(kernels, g)
           /\ \A j \in 1..Len(interp) :
                interp[j].given = g => Params(kernels, interp[j].kernel) = opt.resultx
           /\ \A c \in 1..Len(kernels) : \A pos \in 1..Len(kernels[c].kernels) :
                kernels[c].kernels[pos] = g =>
                    LET off == Offset(kernels, kernels[c].kernels, pos)
                    IN SubSeq(Params(kernels, c), off + 1, off + Len(opt.resultx)) = opt.resultx
           /\ \A pos \in 1..Len(kernels[g].kernels) :
                LET off == Offset(kernels, kernels[g].kernels, pos)
                    child == kernels[g].kernels[pos]
                IN kernels[child].params
                   = SubSeq(opt.resultx, off + 1, off + Len(kernels[child].params))

\* C9's case: two Interpolators on one kernel that a CombinedKernel contains;
\* the optimum is neither the start nor the last candidate the objective saw
C9_Witness ==
    /\ opt.pc = "returned"
    /\ \E j \in 1..Len(interp) : j # opt.who /\ interp[j].given = interp[opt.who].given
    /\ \E c \in 1..Len(kernels) : interp[opt.who].given \in Range(kernels[c].kernels)
    /\ opt.resultx # opt.x0
    /\ Len(opt.evals) = MaxEvals
    /\ opt.evals[Len(opt.evals)].ret = "value"
    /\ opt.evals[Len(opt.evals)].params # opt.resultx

\* ------------------------------------------------------------------ sample_kernel

\* burn-in steps and production steps a caller may ask for
MaxBurnin == 2
MaxSamples == 2

\* x > 0 on floats
FGtZero(x) == (x.k = "fin" /\ x.v > 0) \/ (x.k = "inf" /\ x.v > 0)

\* _instantiate_sampler: num_dim = len(self.kernel.params) and, with
\* num_walkers left None, num_walkers = 2*num_dim
instantiate_sampler(heap, kernel) ==
    [num_dim |-> Len(Params(heap, kernel)), num_walkers |-> 2 * Len(Params(heap, kernel))]

\* the log-probability the sampler is given (lines 616-621): the kernel is
\* updated first, then non-positive params get -np.infty
sampler_target(heap, kernel, params) ==
    LET u == update(heap, kernel, ZipNames(heap, kernel, params))
    IN [heap |-> u.heap,
        ret |-> IF \A i \in 1..Len(params) : FGtZero(params[i]) THEN "value" ELSE "-inf"]

\* the sampler maps its log-probability over the rows of coords, one call
\* after the other
RECURSIVE map_target(_, _, _, _)
map_target(heap, kernel, coords, ret) ==
    IF coords = <<>> THEN [heap |-> heap, ret |-> ret]
    ELSE map_target(sampler_target(heap, kernel, coords[1]).heap, kernel, Tail(coords),
                    Append(ret, sampler_target(heap, kernel, coords[1]).ret))

compute_log_prob(heap, kernel, coords) == map_target(heap, kernel, coords, <<>>)

\* sampler.get_chain(): every step the sampler stored since it was made (the
\* code never calls sampler.reset())
get_chain(chain) == [i \in 1..Len(chain) |-> chain[i].coords]

\* sampler.get_log_prob(), in step with get_chain()
get_log_prob(chain) == [i \in 1..Len(chain) |-> chain[i].log_prob]

\* the kernels sampling starts from
SampleHeap ==
    LET leaves == <<WhiteNoiseKernel(F(1)), WhiteNoiseKernel(F(2))>>
    IN Append(leaves, CombinedKernel(leaves, <<1, 2>>))

\* where a walker can be (np.abs makes the start positive) and what a move
\* can propose for it
WalkerVals == {F(1), F(2)}
ProposalVals == {F(-1), F(1), F(2)}

InitSample ==
    /\ \E given \in {<<1, 2>>} :
        LET b == BuildInterpolators(SampleHeap, given, <<>>)
        IN kernels = b.heap /\ interp = b.interp
    /\ call = IdleCall
    /\ gp = NoGp
    /\ opt = NoOpt
    /\ mc = NoMc
    /\ imports = AllImported

\* interp[who].sample_kernel(..., num_burnin, num_samples): without emcee,
\* _instantiate_sampler raises ImportError before anything else; else the sampler is
\* made, the walkers are scattered, and run_mcmc(state, num_burnin) starts by
\* computing the log-probability of the walkers' positions
SampleStart ==
    /\ mc.pc = "idle"
    /\ \E who \in 1..Len(interp), num_burnin \in 0..MaxBurnin, num_samples \in 1..MaxSamples :
        IF ~imports.emcee
        THEN /\ kernels' = kernels
             /\ mc' = [pc |-> "raised", who |-> who, num_burnin |-> num_burnin,
                       num_samples |-> num_samples, num_walkers |-> 0, num_dim |-> 0,
                       coords |-> <<>>, log_prob |-> <<>>, todo |-> 0, chain |-> <<>>,
                       samples |-> <<>>, logprob |-> <<>>, exc |-> "ImportError"]
        ELSE
        LET dims == instantiate_sampler(kernels, interp[who].kernel)
        IN \E state \in [1..dims.num_walkers -> [1..dims.num_dim -> WalkerVals]] :
            \E lp \in {compute_log_prob(kernels, interp[who].kernel, state)} :
               /\ kernels' = lp.heap
               /\ mc' = [pc |-> "burnin", who |-> who, num_burnin |-> num_burnin,
                         num_samples |-> num_samples, num_walkers |-> dims.num_walkers,
                         num_dim |-> dims.num_dim, coords |-> state, log_prob |-> lp.ret,
                         todo |-> num_burnin, chain |-> <<>>, samples |-> <<>>,
                         logprob |-> <<>>, exc |-> ""]
    /\ UNCHANGED <<call, gp, interp, opt, imports>>

\* one step of run_mcmc: every walker gets a proposal, the log-probability
\* is computed for the proposals, a walker moves when its proposal is
\* accepted (never to one of log-probability -inf), and the step is stored
McStep ==
    /\ mc.pc \in {"burnin", "production"}
    /\ mc.todo > 0
    /\ \E proposal \in [1..mc.num_walkers -> [1..mc.num_dim -> ProposalVals]],
          accept \in [1..mc.num_walkers -> BOOLEAN] :
      \E lp \in {compute_log_prob(kernels, interp[mc.who].kernel, proposal)} :
        LET moved == [w \in 1..mc.num_walkers |-> accept[w] /\ lp.ret[w] # "-inf"]
            coords == [w \in 1..mc.num_walkers |->
                          IF moved[w] THEN proposal[w] ELSE mc.coords[w]]
            log_prob == [w \in 1..mc.num_walkers |->
                            IF moved[w] THEN lp.ret[w] ELSE mc.log_prob[w]]
        IN /\ (\A w \in 1..mc.num_walkers : accept[w] => lp.ret[w] # "-inf")
           /\ kernels' = lp.heap
           /\ mc' = [mc EXCEPT
                       !.coords = coords,
                       !.log_prob = log_prob,
                       !.todo = @ - 1,
                       !.chain = Append(@, [phase |-> mc.pc, coords |-> coords,
                                            log_prob |-> log_prob])]
    /\ UNCHANGED <<call, gp, interp, opt, imports>>

\* run_mcmc(state, num_burnin) returns its last state, None when it made no
\* step; run_mcmc(None, num_samples) on a sampler that has no previous state
\* is a ValueError
BurninDone ==
    /\ mc.pc = "burnin"
    /\ mc.todo = 0
    /\ mc' = IF mc.num_burnin = 0
             THEN [mc EXCEPT !.pc = "raised", !.exc = "ValueError"]
             ELSE [mc EXCEPT !.pc = "production", !.todo = mc.num_samples]
    /\ UNCHANGED <<kernels, call, gp, interp, opt, imports>>

\* the production run is over: sample_kernel returns get_chain() and
\* get_log_prob()
ProductionDone ==
    /\ mc.pc = "production"
    /\ mc.todo = 0
    /\ mc' = [mc EXCEPT !.pc = "returned",
                        !.samples = get_chain(mc.chain),
                        !.logprob = get_log_prob(mc.chain)]
    /\ UNCHANGED <<kernels, call, gp, interp, opt, imports>>

NextSample == SampleStart \/ McStep \/ BurninDone \/ ProductionDone

SpecSample == InitSample /\ [][NextSample]_vars

\* ------------------------------------------------------------------ claims on sample_kernel

\* C8: sample_kernel returns a chain and a log-probability array of exactly
\* the num_samples production steps (num_samples x num_walkers x num_dim):
\* no burn-in step is in them.
C8_ChainIsProductionOnly ==
    mc.pc = "returned" =>
        /\ Len(mc.samples) = mc.num_samples
        /\ Len(mc.logprob) = mc.num_samples
        /\ \A i \in 1..Len(mc.samples) :
            /\ Len(mc.samples[i]) = mc.num_walkers
            /\ \A w \in 1..mc.num_walkers : Len(mc.samples[i][w]) = mc.num_dim
        /\ mc.samples = get_chain(SelectSeq(mc.chain, LAMBDA st : st.phase = "production"))

\* ------------------------------------------------------------------ rvs

\* draws a caller may ask for
MaxSize == 2

\* Interpolator.condition: the three covariance blocks, the inverse of the
\* source-source block (singular: np.linalg.inv raises LinAlgError), and the
\* mean and covariance, kept as the expressions of lines 398 and 408
condition(heap, kernel, target_x, source_x, source_f, singular) ==
    LET cov_tar_tar == x2cov(heap, target_x, target_x, kernel)
        cov_tar_src == x2cov(heap, target_x, source_x, kernel)
        cov_src_src == x2cov(heap, source_x, source_x, kernel)
    IN IF cov_tar_tar.exc # "" \/ cov_tar_src.exc # "" \/ cov_src_src.exc # ""
       THEN [exc |-> "AssertionError", mean |-> <<>>, cov |-> <<>>]
       ELSE IF singular THEN [exc |-> "LinAlgError", mean |-> <<>>, cov |-> <<>>]
       ELSE [exc |-> "",
             mean |-> [what |-> "mean", len |-> Len(target_x), f |-> source_f,
                       cov_tar_src |-> cov_tar_src.cov, cov_src_src |-> cov_src_src.cov],
             cov |-> [what |-> "cov", len |-> Len(target_x), cov_tar_tar |-> cov_tar_tar.cov,
                      cov_tar_src |-> cov_tar_src.cov, cov_src_src |-> cov_src_src.cov]]

\* the positional arguments a function found on an instance is called with:
\* a plain function defined in the class is bound and gets the instance
\* first, a staticmethod does not
BoundArgs(kind, self, positional) ==
    IF kind = "staticmethod" THEN positional ELSE <<self>> \o positional

\* Python's binding of positional and keyword arguments to the parameters
\* names: a TypeError for too many positional arguments, for a keyword that
\* is no parameter and for a keyword whose parameter a positional argument
\* already filled; a parameter left over takes its default
py_bind(names, defaults, positional, keywords) ==
    IF Len(positional) > Len(names) THEN [exc |-> "TypeError", args |-> <<>>]
    ELSE IF \E k \in 1..Len(keywords) : py_index(names, keywords[k][1]) = 0
    THEN [exc |-> "TypeError", args |-> <<>>]
    ELSE IF \E k \in 1..Len(keywords) : py_index(names, keywords[k][1]) <= Len(positional)
    THEN [exc |-> "TypeError", args |-> <<>>]
    ELSE [exc |-> "",
          args |-> [i \in 1..Len(names) |->
                      IF i <= Len(positional) THEN positional[i]
                      ELSE IF \E k \in 1..Len(keywords) : keywords[k][1] = names[i]
                      THEN (CHOOSE kw \in Range(keywords) : kw[1] = names[i])[2]
                      ELSE defaults[i]]]

\* the body of _rvs_from_conditioned(mean, cov, size): size draws around mean
rvs_from_conditioned(mean, cov, size) ==
    [rows |-> size, cols |-> mean.len, mean |-> mean, cov |-> cov]

\* Interpolator.rvs: self._rvs_from_conditioned(*self.condition(...), size=size),
\* where _rvs_from_conditioned is a plain function of the class with the
\* parameters (mean, cov, size=1)
rvs_of(c, self, size) ==
    LET b == py_bind(<<"mean", "cov", "size">>, <<"", "", 1>>,
                     BoundArgs("function", self, <<c.mean, c.cov>>),
                     <<<<"size", size>>>>)
    IN IF c.exc # "" THEN [cond |-> c, exc |-> c.exc, args |-> <<>>, out |-> <<>>]
       ELSE IF b.exc # "" THEN [cond |-> c, exc |-> b.exc, args |-> <<>>, out |-> <<>>]
       ELSE [cond |-> c, exc |-> "", args |-> b.args,
             out |-> rvs_from_conditioned(b.args[1], b.args[2], b.args[3])]

rvs(heap, self, target_x, source_x, source_f, size, singular) ==
    rvs_of(condition(heap, self.kernel, target_x, source_x, source_f, singular), self, size)

InitRvs ==
    /\ \E d \in Dims :
        LET b == BuildInterpolators(HeapOfDim(d), <<1, 2, 3, 4>>, <<>>)
        IN kernels = b.heap /\ interp = b.interp
    /\ call = IdleCall
    /\ gp = NoGp
    /\ opt = NoOpt
    /\ mc = NoMc
    /\ imports = AllImported

\* interp[who].rvs(target_x, source_x, source_f, size=size) with one value
\* per source point
Rvs ==
    /\ gp.pc = "idle"
    /\ \E who \in 1..Len(interp), target_x \in PointSetsOf(HeapDim(kernels)),
          source_x \in PointSets, size \in 1..MaxSize, singular \in BOOLEAN :
        LET source_f == [i \in 1..Len(source_x) |-> i]
        IN \E r \in {rvs(kernels, [what |-> "Interpolator", kernel |-> interp[who].kernel],
                         target_x, source_x, source_f, size, singular)} :
           gp' = [pc |-> "done", who |-> who, target_x |-> target_x, source_x |-> source_x,
                  source_f |-> source_f, size |-> size, cond |-> r.cond, exc |-> r.exc,
                  args |-> r.args, out |-> r.out]
    /\ UNCHANGED <<kernels, call, interp, opt, mc, imports>>

NextRvs == Rvs

SpecRvs == InitRvs /\ [][NextRvs]_vars

\* ------------------------------------------------------------------ claims on rvs

\* C10: when condition succeeds on (target_x, source_x, source_f), rvs hands
\* the mean and covariance condition returned to the sampling helper and
\* returns size draws, each of length |target_x|, and raises nothing.
C10_RvsDrawsFromConditioned ==
    (gp.pc = "done" /\ gp.cond.exc = "") =>
        /\ gp.exc = ""
        /\ gp.args = <<gp.cond.mean, gp.cond.cov, gp.size>>
        /\ gp.out.rows = gp.size
        /\ gp.out.cols = Len(gp.target_x)

\* ------------------------------------------------------------------ the dense engine's calls

\* Interpolator.compress: inv(Cov(source_x, source_x)) @ source_f, kept as
\* an expression (singular: np.linalg.inv raises LinAlgError)
compress(heap, kernel, source_x, source_f, singular) ==
    LET cov_src_src == x2cov(heap, source_x, source_x, kernel)
    IN IF cov_src_src.exc # "" THEN [exc |-> cov_src_src.exc, out |-> <<>>]
       ELSE IF singular THEN [exc |-> "LinAlgError", out |-> <<>>]
       ELSE [exc |-> "", out |-> [what |-> "compressed", f |-> source_f,
                                  cov_src_src |-> cov_src_src.cov]]

\* Interpolator.predict: cov_tar_src @ compressed, kept as an expression
predict(heap, kernel, target_x, source_x, compressed) ==
    LET cov_tar_src == x2cov(heap, target_x, source_x, kernel)
    IN IF cov_tar_src.exc # "" THEN [exc |-> cov_tar_src.exc, out |-> <<>>]
       ELSE [exc |-> "", out |-> [what |-> "mean", compressed |-> compressed,
                                  cov_tar_src |-> cov_tar_src.cov]]

\* Interpolator.loglikelihood: the assert on the sign of the determinant
\* (posdef) and the value, kept as an expression
loglikelihood(heap, kernel, source_x, source_f, posdef) ==
    LET cov_src_src == x2cov(heap, source_x, source_x, kernel)
    IN IF cov_src_src.exc # "" THEN [exc |-> cov_src_src.exc, out |-> <<>>]
       ELSE IF ~posdef THEN [exc |-> "AssertionError", out |-> <<>>]
       ELSE [exc |-> "", out |-> [what |-> "loglikelihood", f |-> source_f,
                                  cov_src_src |-> cov_src_src.cov]]

\* the four calls of the base interpolation path, by name; source_f has one
\* value per source point, and flag is whether the source-source covariance
\* is one numpy can work with (invertible, positive definite)
MethodNames == {"compress", "predict", "condition", "loglikelihood"}

Interpolator_call(heap, kernel, op, target_x, source_x, flag) ==
    LET source_f == [i \in 1..Len(source_x) |-> i]
    IN CASE op = "compress" -> compress(heap, kernel, source_x, source_f, ~flag)
         [] op = "predict" -> predict(heap, kernel, target_x, source_x, source_f)
         [] op = "loglikelihood" -> loglikelihood(heap, kernel, source_x, source_f, flag)
         [] OTHER ->
              LET c == condition(heap, kernel, target_x, source_x, source_f, ~flag)
              IN [exc |-> c.exc, out |-> <<c.mean, c.cov>>]

\* ------------------------------------------------------------------ optional imports

\* MaternKernel.__init__ without the check of _gamma and _bessel_k
MaternKernel_init_unchecked(imp, order, sigma, lengths) ==
    [exc |-> "", obj |-> MaternKernel(order, sigma, lengths)]

\* MaternKernel.__init__: ImportError when scipy.special could not be
\* imported, before any parameter is set
MaternKernel_init(imp, order, sigma, lengths) ==
    IF ~imp.gamma THEN [exc |-> "ImportError", obj |-> <<>>]
    ELSE IF ~imp.bessel_k THEN [exc |-> "ImportError", obj |-> <<>>]
    ELSE [exc |-> "", obj |-> MaternKernel(order, sigma, lengths)]

\* the constructors of the simple kernels, by class name, on sigma = 1,
\* order = 1 and one length 1
KernelClasses == {"WhiteNoiseKernel", "SquaredExponentialKernel", "MaternKernel"}

new_kernel(imp, cls) ==
    CASE cls = "WhiteNoiseKernel" -> [exc |-> "", obj |-> WhiteNoiseKernel(F(1))]
      [] cls = "SquaredExponentialKernel" ->
           [exc |-> "", obj |-> SquaredExponentialKernel(F(1), <<F(1)>>)]
      [] OTHER -> MaternKernel_init(imp, F(1), F(1), <<F(1)>>)

\* the module was imported, with any outcome of the optional imports; no
\* object exists yet
InitCaps ==
    /\ kernels = <<>>
    /\ interp = <<>>
    /\ call = IdleCall
    /\ gp = NoGp
    /\ opt = NoOpt
    /\ mc = NoMc
    /\ imports \in ImportOutcomes

\* a simple kernel is constructed (one kernel object per behaviour)
NewKernel ==
    /\ kernels = <<>>
    /\ \E cls \in KernelClasses :
        \E k \in {new_kernel(imports, cls)} :
            /\ kernels' = IF k.exc = "" THEN <<k.obj>> ELSE kernels
            /\ gp' = [pc |-> "constructed", op |-> cls, exc |-> k.exc, out |-> <<>>]
    /\ UNCHANGED <<call, interp, opt, mc, imports>>

\* Interpolator(kernel) on the kernel (one Interpolator per behaviour)
NewInterpolator ==
    /\ kernels # <<>>
    /\ interp = <<>>
    /\ \E b \in {BuildInterpolators(kernels, <<1>>, <<>>)} :
        /\ kernels' = b.heap
        /\ interp' = b.interp
    /\ gp' = [pc |-> "constructed", op |-> "Interpolator", exc |-> "", out |-> <<>>]
    /\ UNCHANGED <<call, opt, mc, imports>>

\* no optimize_kernel or sample_kernel call was made
NoTuning == opt.pc = "idle" /\ mc.pc = "idle"

\* compress, predict, condition or loglikelihood on the Interpolator (one
\* call on it per behaviour)
CallMethod ==
    /\ interp # <<>>
    /\ NoTuning
    /\ gp.pc = "constructed"
    /\ \E op \in MethodNames, target_x \in PointSetsOf(HeapDim(kernels)),
          source_x \in PointSetsOf(HeapDim(kernels)), flag \in BOOLEAN :
        \E r \in {Interpolator_call(kernels, interp[1].kernel, op, target_x, source_x, flag)} :
            gp' = [pc |-> "called", op |-> op, exc |-> r.exc, out |-> r.out]
    /\ UNCHANGED <<kernels, call, interp, opt, mc, imports>>

\* one optimize_kernel or sample_kernel call per behaviour, on an
\* Interpolator no other call was made on; the walkers of a sampler that
\* exists are enumerated for kernels of one parameter
CapsNext ==
    \/ NewKernel
    \/ NewInterpolator
    \/ CallMethod
    \/ (NoTuning /\ gp.pc = "constructed" /\ OptStart)
    \/ OptTarget
    \/ OptFinish
    \/ /\ NoTuning
       /\ gp.pc = "constructed"
       /\ interp # <<>>
       /\ imports.emcee => Len(Params(kernels, interp[1].kernel)) = 1
       /\ SampleStart
    \/ McStep
    \/ BurninDone
    \/ ProductionDone

SpecCaps == InitCaps /\ [][CapsNext]_vars

\* ------------------------------------------------------------------ claims on the optional imports

\* a call that was made and raised ImportError
OptImportError == opt.pc = "raised" /\ opt.exc = "ImportError"
McImportError == mc.pc = "raised" /\ mc.exc = "ImportError"

\* the methods of the base path never raise ImportError; optimize_kernel
\* raises it exactly when scipy.optimize is absent and sample_kernel exactly
\* when emcee is absent
RaisedByDependentMethod ==
    /\ gp.pc = "called" => gp.exc # "ImportError"
    /\ opt.pc # "idle" => (OptImportError <=> ~imports.minimize)
    /\ mc.pc # "idle" => (McImportError <=> ~imports.emcee)

\* a step that ends in the ImportError of optimize_kernel or sample_kernel
\* changes no kernel
FailedCallKeepsParams ==
    /\ (opt.pc = "idle" /\ OptImportError') => kernels' = kernels
    /\ (mc.pc = "idle" /\ McImportError') => kernels' = kernels

\* C11 as stated: an absent optional capability raises only when the method
\* that depends on it is invoked: every construction of a kernel or an
\* Interpolator succeeds, compress/predict/condition/loglikelihood never
\* raise ImportError, and a failing optimize_kernel or sample_kernel leaves
\* the kernel parameters unchanged.
C11_Original_ConstructionNeverFails ==
    [][/\ (gp.pc = "constructed" => gp.exc = "")'
       /\ RaisedByDependentMethod'
       /\ FailedCallKeepsParams]_vars

\* C11 amended: as stated, except that the constructor of MaternKernel is
\* itself a dependent method: it raises ImportError exactly when
\* scipy.special is absent, and every other construction succeeds.
C11_ImportErrorOnlyFromDependentMethod ==
    [][/\ (gp.pc = "constructed" =>
              gp.exc = IF gp.op = "MaternKernel" /\ ~(imports.gamma /\ imports.bessel_k)
                       THEN "ImportError" ELSE "")'
       /\ RaisedByDependentMethod'
       /\ FailedCallKeepsParams]_vars

\* optimize_kernel was called without scipy.optimize on an Interpolator that
\* was constructed, and raised ImportError
C11_Witness ==
    /\ ~imports.minimize
    /\ interp # <<>>
    /\ OptImportError

\* ------------------------------------------------------------------ NearestNeighborInterpolator

\* the largest num_neighbors a caller passes
MaxNeighbors == 2

\* NearestNeighborInterpolator.__init__: the two settings are stored and
\* Interpolator.__init__ keeps the kernel
NearestNeighborInterpolator_init(heap, kernel, num_neighbors, order_by_index) ==
    [what |-> "NearestNeighborInterpolator",
     kernel |-> Interpolator_init(heap, kernel).kernel,
     given |-> Interpolator_init(heap, kernel).given,
     num_neighbors |-> num_neighbors,
     order_by_index |-> order_by_index]

\* self.compress, self.predict, self.condition or self.loglikelihood, looked
\* up on the class of self: the four methods of NearestNeighborInterpolator
\* raise NotImplementedError whatever they are given
method_call(heap, self, op, target_x, source_x, flag) ==
    IF self.what = "NearestNeighborInterpolator"
    THEN [exc |-> "NotImplementedError", out |-> <<>>]
    ELSE Interpolator_call(heap, self.kernel, op, target_x, source_x, flag)

\* self.condition looked up on the class of self
self_condition(heap, self, target_x, source_x, source_f, singular) ==
    IF self.what = "NearestNeighborInterpolator"
    THEN [exc |-> "NotImplementedError", mean |-> <<>>, cov |-> <<>>]
    ELSE condition(heap, self.kernel, target_x, source_x, source_f, singular)

\* the inherited rvs: self.condition(...) is evaluated first, and its
\* exception ends the call
inherited_rvs(heap, self, target_x, source_x, size, flag) ==
    rvs_of(self_condition(heap, self, target_x, source_x,
                          [i \in 1..Len(source_x) |-> i], ~flag), self, size)

\* the first evaluation of the objective of the inherited optimize_kernel
\* (the minimizer starts at the kernel's params) and of sample_kernel (the
\* first walker, at state): the kernel is updated and self.loglikelihood is
\* called; its exception ends the call.  Both start from positive params.
inherited_tuning(imp, heap, self, op, source_x, state) ==
    IF op = "optimize_kernel" /\ ~imp.minimize THEN [heap |-> heap, exc |-> "ImportError"]
    ELSE IF op = "sample_kernel" /\ ~imp.emcee THEN [heap |-> heap, exc |-> "ImportError"]
    ELSE [heap |-> update(heap, self.kernel,
                          ZipNames(heap, self.kernel,
                                   IF op = "optimize_kernel" THEN Params(heap, self.kernel)
                                   ELSE state)).heap,
          exc |-> method_call(heap, self, "loglikelihood", source_x, source_x, TRUE).exc]

\* one-dimensional kernels of each class, no Interpolator yet
InitNN ==
    /\ kernels = HeapOfDim(1)
    /\ interp = <<>>
    /\ call = IdleCall
    /\ gp = NoGp
    /\ opt = NoOpt
    /\ mc = NoMc
    /\ imports = AllImported

\* NearestNeighborInterpolator(kernel, num_neighbors=n) with the default
\* order_by_index
NewNearestNeighbor ==
    /\ interp = <<>>
    /\ \E kernel \in 1..Len(kernels), num_neighbors \in 1..MaxNeighbors :
        interp' = <<NearestNeighborInterpolator_init(kernels, kernel, num_neighbors, 0)>>
    /\ UNCHANGED <<kernels, call, gp, opt, mc, imports>>

\* one of the four methods on the NearestNeighborInterpolator, and the same
\* call on an Interpolator of the same kernel
NearestNeighborCall ==
    /\ interp # <<>>
    /\ gp.pc = "idle"
    /\ \E op \in MethodNames, target_x \in PointSetsOf(HeapDim(kernels)),
          source_x \in PointSetsOf(HeapDim(kernels)), flag \in BOOLEAN :
        \E r \in {method_call(kernels, interp[1], op, target_x, source_x, flag)},
           dense \in {Interpolator_call(kernels, interp[1].kernel, op, target_x, source_x,
                                        flag)} :
            gp' = [pc |-> "done", op |-> op, source_x |-> source_x, target_x |-> target_x,
                   exc |-> r.exc, out |-> r.out, dense |-> dense]
    /\ UNCHANGED <<kernels, call, interp, opt, mc, imports>>

\* rvs on the NearestNeighborInterpolator, and on an Interpolator of the
\* same kernel
NearestNeighborRvs ==
    /\ interp # <<>>
    /\ gp.pc = "idle"
    /\ \E target_x \in PointSetsOf(HeapDim(kernels)),
          source_x \in PointSetsOf(HeapDim(kernels)), size \in 1..MaxSize, flag \in BOOLEAN :
        \E r \in {inherited_rvs(kernels, interp[1], target_x, source_x, size, flag)},
           dense \in {inherited_rvs(kernels, [what |-> "Interpolator",
                                              kernel |-> interp[1].kernel],
                                    target_x, source_x, size, flag)} :
            gp' = [pc |-> "done", op |-> "rvs", source_x |-> source_x, target_x |-> target_x,
                   exc |-> r.exc, out |-> r.out, dense |-> dense]
    /\ UNCHANGED <<kernels, call, interp, opt, mc, imports>>

\* optimize_kernel or sample_kernel on the NearestNeighborInterpolator, up
\* to the first evaluation of the objective
NearestNeighborTuning ==
    /\ interp # <<>>
    /\ gp.pc = "idle"
    /\ \E op \in {"optimize_kernel", "sample_kernel"},
          source_x \in PointSetsOf(HeapDim(kernels)),
          state \in [1..Len(Params(kernels, interp[1].kernel)) -> WalkerVals] :
        \E r \in {inherited_tuning(imports, kernels, interp[1], op, source_x, state)} :
            /\ r.exc # ""
            /\ kernels' = r.heap
            /\ gp' = [pc |-> "done", op |-> op, source_x |-> source_x, target_x |-> <<>>,
                      exc |-> r.exc, out |-> <<>>, dense |-> <<>>]
    /\ UNCHANGED <<call, interp, opt, mc, imports>>

NextNN == NewNearestNeighbor \/ NearestNeighborCall \/ NearestNeighborRvs
          \/ NearestNeighborTuning

SpecNN == InitNN /\ [][NextNN]_vars

\* ------------------------------------------------------------------ claims on NearestNeighborInterpolator

\* C12: with num_neighbors at least the size of the training set, compress,
\* predict, condition and loglikelihood (and the inherited rvs) return what
\* the dense Interpolator returns on the same inputs whenever it returns,
\* and the inherited optimize_kernel and sample_kernel do not fail with
\* NotImplementedError.
C12_SparseMatchesDense ==
    (gp.pc = "done" /\ interp[1].num_neighbors >= Len(gp.source_x)) =>
        /\ (gp.op \in MethodNames \cup {"rvs"} /\ gp.dense.exc = "") =>
               (gp.exc = "" /\ gp.out = gp.dense.out)
        /\ gp.op \in {"optimize_kernel", "sample_kernel"} => gp.exc # "NotImplementedError"

\* ------------------------------------------------------------------ claims on the kernel during tuning

\* C13: from kernels whose parameters are all strictly positive, every
\* component of every kernel's parameters is strictly positive in every
\* state reached while optimize_kernel or sample_kernel runs and after it
\* returns: a rejected candidate is never written into the kernel.
C13_ParamsStayPositive ==
    \A id \in 1..Len(kernels) :
        \A i \in 1..Len(kernels[id].params) : FGtZero(kernels[id].params[i])

====
